---- MODULE Spec2Model ----
(***************************************************************************)
(* Model of mishra-h/meeting-transcriber (src/meeting_transcriber.py):     *)
(* the overlap resolver (_find_dominant_speaker), the aligner              *)
(* (_align_transcription_with_speakers), the three output renderings and   *)
(* the temp-file lifecycle of transcribe_with_speakers.                    *)
(*                                                                         *)
(* Times are integers counting ticks of 1/TicksPerSecond second, so that   *)
(* int(seconds) truncates.  Strings that the code takes apart (speaker     *)
(* ids, texts, paths) are sequences of one-string pieces.                  *)
(***************************************************************************)
EXTENDS Integers, Sequences, FiniteSets, TLC

VARIABLES pc, exc, audio_path, processed_audio_path, temp_file_created, fs,
          remove_failed, diarization, whisper_segments, segments, json_file,
          transcript, csv_file, start_time, end_time, speaker

vars == <<pc, exc, audio_path, processed_audio_path, temp_file_created, fs,
          remove_failed, diarization, whisper_segments, segments, json_file,
          transcript, csv_file, start_time, end_time, speaker>>

(* ------------------------------ bounds -------------------------------- *)
MaxTime == 2
MaxTurns == 3
TicksPerSecond == 2

(* Python's None where a string is expected, and where a sequence is. *)
None == "None"
Absent == <<>>
Times == 0..MaxTime

Max2(a, b) == IF a >= b THEN a ELSE b
Min2(a, b) == IF a <= b THEN a ELSE b

SeqsUpTo(S, n) == UNION {[1..k -> S] : k \in 0..n}

(* --------------------------- diarization ------------------------------ *)
(* Raw speaker ids as pyannote names them, "SPEAKER_00" and "SPEAKER_01",  *)
(* cut at the underscores.                                                 *)
Speakers == { <<"SPEAKER", "_", "00">>, <<"SPEAKER", "_", "01">> }

Turns == {[start |-> a, end |-> b, speaker |-> s] :
            a \in Times, b \in Times, s \in Speakers}

(* A pyannote Segment of a track is non-empty. *)
TrackTurns == {t \in Turns : t.start < t.end}

(* What diarization.itertracks(yield_label=True) yields, in its order. *)
Timelines == SeqsUpTo(TrackTurns, MaxTurns)

(* ------------------------ _find_dominant_speaker ---------------------- *)
Unknown == <<"Unknown">>

HasKey(durations, spk) == \E i \in DOMAIN durations : durations[i][1] = spk

(* speaker_durations is a dict: keys in insertion order, here a sequence   *)
(* of <<key, value>>.  A new key starts at 0 and is then incremented.      *)
AddDuration(durations, spk, overlap_duration) ==
    LET d0 == IF HasKey(durations, spk) THEN durations
              ELSE Append(durations, <<spk, 0>>)
    IN  [i \in DOMAIN d0 |->
            IF d0[i][1] = spk THEN <<spk, d0[i][2] + overlap_duration>>
            ELSE d0[i]]

OverlapsOrTouches(overlap_start, overlap_end) == overlap_start <= overlap_end

Overlaps(overlap_start, overlap_end) == overlap_start < overlap_end

RECURSIVE SpeakerDurations(_, _, _, _)
SpeakerDurations(turns, s, e, durations) ==
    IF turns = <<>> THEN durations
    ELSE LET turn == Head(turns)
             overlap_start == Max2(s, turn.start)
             overlap_end == Min2(e, turn.end)
         IN  SpeakerDurations(Tail(turns), s, e,
                IF Overlaps(overlap_start, overlap_end)
                THEN AddDuration(durations, turn.speaker,
                                 overlap_end - overlap_start)
                ELSE durations)

(* max(speaker_durations, key=speaker_durations.get): the keys are visited *)
(* in insertion order and a later key replaces the best one only when its  *)
(* value is strictly greater.                                              *)
RECURSIVE MaxFrom(_, _, _)
MaxFrom(durations, i, best) ==
    IF i > Len(durations) THEN durations[best][1]
    ELSE MaxFrom(durations, i + 1,
                 IF durations[i][2] > durations[best][2] THEN i ELSE best)

RECURSIVE MaxFromLast(_, _, _)
MaxFromLast(durations, i, best) ==
    IF i > Len(durations) THEN durations[best][1]
    ELSE MaxFromLast(durations, i + 1,
                     IF durations[i][2] >= durations[best][2] THEN i ELSE best)

RECURSIVE MinFrom(_, _, _)
MinFrom(durations, i, best) ==
    IF i > Len(durations) THEN durations[best][1]
    ELSE MinFrom(durations, i + 1,
                 IF durations[i][2] < durations[best][2] THEN i ELSE best)

DictMaxLast(durations) == MaxFromLast(durations, 2, 1)

DictMaxFirstKey(durations) == durations[1][1]

DictMaxMin(durations) == MinFrom(durations, 2, 1)

DictMax(durations) == MaxFrom(durations, 2, 1)

(* dominant_speaker.split('_')[-1]: what follows the last underscore, the  *)
(* whole id when it has none.                                              *)
RECURSIVE LastToken(_)
LastToken(raw) ==
    IF raw = <<>> THEN <<>>
    ELSE IF \E i \in DOMAIN raw : raw[i] = "_"
         THEN LastToken(Tail(raw))
         ELSE raw

SpeakerLabel(raw) == <<"Speaker", "_">> \o LastToken(raw)

find_dominant_speaker(s, e, turns) ==
    LET speaker_durations == SpeakerDurations(turns, s, e, <<>>)
    IN  IF speaker_durations = <<>> THEN Unknown
        ELSE SpeakerLabel(DictMax(speaker_durations))

(* ----------------- specification of the overlap resolver -------------- *)
Idle == /\ exc = None
        /\ audio_path = None
        /\ processed_audio_path = None
        /\ temp_file_created = FALSE
        /\ fs = {}
        /\ remove_failed = FALSE
        /\ whisper_segments = <<>>
        /\ segments = <<>>
        /\ json_file = Absent
        /\ transcript = Absent
        /\ csv_file = Absent

InitResolve ==
    /\ Idle
    /\ pc = "resolve"
    /\ start_time \in Times
    /\ end_time \in Times
    /\ diarization \in Timelines
    /\ speaker = Absent

FindDominantSpeaker ==
    /\ pc = "resolve"
    /\ speaker' = find_dominant_speaker(start_time, end_time, diarization)
    /\ pc' = "resolved"
    /\ UNCHANGED <<exc, audio_path, processed_audio_path, temp_file_created,
                   fs, remove_failed, diarization, whisper_segments, segments,
                   json_file, transcript, csv_file, start_time, end_time>>

NextResolve == FindDominantSpeaker

SpecResolve == InitResolve /\ [][NextResolve]_vars

(* The same resolver over the timelines pyannote's Annotation produces:   *)
(* itertracks yields the tracks in chronological order of their segments  *)
(* (by start, then end), and no track occurs twice.                       *)
SegmentLeq(t, u) ==
    \/ t.start < u.start
    \/ t.start = u.start /\ t.end <= u.end

IsChronological(turns) ==
    \A i \in DOMAIN turns : \A j \in DOMAIN turns :
        i < j => SegmentLeq(turns[i], turns[j]) /\ turns[i] # turns[j]

InitChrono ==
    /\ InitResolve
    /\ IsChronological(diarization)

NextChrono == FindDominantSpeaker

SpecChrono == InitChrono /\ [][NextChrono]_vars

(* ------------------ _align_transcription_with_speakers ---------------- *)
MaxSpanTime == 1
MaxSpans == 2

(* Texts as Whisper returns them, one character per element. *)
Texts == { <<" ", "a", " ", "b">>, <<"a", " ">> }

IsSpace(c) == c = " "

RECURSIVE LStrip(_)
LStrip(text) ==
    IF text # <<>> /\ IsSpace(Head(text)) THEN LStrip(Tail(text)) ELSE text

RECURSIVE RStrip(_)
RStrip(text) ==
    IF text # <<>> /\ IsSpace(text[Len(text)])
    THEN RStrip(SubSeq(text, 1, Len(text) - 1))
    ELSE text

(* str.strip() *)
Strip(text) == RStrip(LStrip(text))

(* result["segments"]: avg_logprob is <<>> where the key is missing,      *)
(* else <<value>>.                                                        *)
WhisperSegments ==
    {[start |-> a, end |-> b, text |-> t, avg_logprob |-> l] :
        a \in 0..MaxSpanTime, b \in 0..MaxSpanTime, t \in Texts,
        l \in {Absent, <<-1>>}}

(* segment.get("avg_logprob", 0) *)
GetAvgLogprob(segment) ==
    IF segment.avg_logprob = Absent THEN 0 ELSE segment.avg_logprob[1]

AlignedSegment(segment, turns) ==
    [start |-> segment.start,
     end |-> segment.end,
     duration |-> segment.end - segment.start,
     speaker |-> find_dominant_speaker(segment.start, segment.end, turns),
     text |-> Strip(segment.text),
     confidence |-> GetAvgLogprob(segment)]

RECURSIVE AlignFromFiltered(_, _, _)
AlignFromFiltered(todo, turns, aligned_segments) ==
    IF todo = <<>> THEN aligned_segments
    ELSE AlignFromFiltered(Tail(todo), turns,
            IF Head(todo).end > Head(todo).start
            THEN Append(aligned_segments, AlignedSegment(Head(todo), turns))
            ELSE aligned_segments)

(* The loop over whisper_segments: every segment appends one record. *)
RECURSIVE AlignFrom(_, _, _)
AlignFrom(todo, turns, aligned_segments) ==
    IF todo = <<>> THEN aligned_segments
    ELSE AlignFrom(Tail(todo), turns,
            Append(aligned_segments, AlignedSegment(Head(todo), turns)))

align_transcription_with_speakers(whisper_segs, turns) ==
    AlignFrom(whisper_segs, turns, <<>>)

(* ------------------------------ renderings ---------------------------- *)
(* An output file is <<>> until it is written, then <<its content>>.      *)
(* int(x) of a non-negative time of x ticks. *)
IntSeconds(x) == x \div TicksPerSecond

TwoDigits(n) == <<n \div 10, n % 10>>

(* str(timedelta(seconds=n)) for n >= 0: "H:MM:SS", after "D day(s), "    *)
(* from one day on.                                                       *)
TimedeltaStr(n) ==
    LET days == n \div 86400
        rest == n % 86400
        hms == <<rest \div 3600, ":">> \o TwoDigits((rest % 3600) \div 60)
               \o <<":">> \o TwoDigits(rest % 60)
    IN  IF days = 0 THEN hms
        ELSE <<days, IF days = 1 THEN " day, " ELSE " days, ">> \o hms

Fields == <<"start", "end", "duration", "speaker", "text", "confidence">>

(* json.dump(segments): one object per record, its keys in insertion      *)
(* order.                                                                 *)
JsonDump(segs) ==
    [i \in DOMAIN segs |->
        [k \in DOMAIN Fields |->
            <<Fields[k],
              CASE k = 1 -> segs[i].start
                [] k = 2 -> segs[i].end
                [] k = 3 -> segs[i].duration
                [] k = 4 -> segs[i].speaker
                [] k = 5 -> segs[i].text
                [] k = 6 -> segs[i].confidence>>]]

Write(kind, timestamp, spk, text) ==
    [kind |-> kind, timestamp |-> timestamp, speaker |-> spk, text |-> text]

SpeakerChangedAlways(spk, current_speaker) == spk # Absent

SpeakerChanged(spk, current_speaker) == spk # current_speaker

(* The f.write calls of the loop of _save_readable_transcript. *)
RECURSIVE TranscriptFrom(_, _, _)
TranscriptFrom(todo, current_speaker, written) ==
    IF todo = <<>> THEN written
    ELSE LET segment == Head(todo)
             timestamp == TimedeltaStr(IntSeconds(segment.start))
             changed == SpeakerChanged(segment.speaker, current_speaker)
             header == Write("header", timestamp, segment.speaker, Absent)
             w1 == IF changed THEN Append(written, header) ELSE written
         IN  TranscriptFrom(Tail(todo),
                IF changed THEN segment.speaker ELSE current_speaker,
                Append(w1, Write("text", Absent, Absent, segment.text)))

Banner == << Write("banner", Absent, Absent, <<"MEETING TRANSCRIPT">>),
             Write("banner", Absent, Absent, <<"=", "*", 50>>) >>

ReadableTranscript(segs) == TranscriptFrom(segs, Absent, Banner)

(* pd.DataFrame(segments).columns: the keys of the records, none for an   *)
(* empty list.                                                            *)
DataFrameColumns(segs) == IF segs = <<>> THEN <<>> ELSE Fields

HasColumn(columns, name) == \E k \in DOMAIN columns : columns[k] = name

CsvRows(segs) ==
    [i \in DOMAIN segs |->
        <<segs[i].start, segs[i].end, segs[i].duration, segs[i].speaker,
          segs[i].text, segs[i].confidence,
          TimedeltaStr(IntSeconds(segs[i].start)),
          TimedeltaStr(IntSeconds(segs[i].end))>>]

Align ==
    /\ pc = "align"
    /\ segments' = align_transcription_with_speakers(whisper_segments,
                                                     diarization)
    /\ pc' = "save_json"
    /\ UNCHANGED <<exc, audio_path, processed_audio_path, temp_file_created,
                   fs, remove_failed, diarization, whisper_segments, json_file,
                   transcript, csv_file, start_time, end_time, speaker>>

SaveDetailedJson ==
    /\ pc = "save_json"
    /\ json_file' = <<JsonDump(segments)>>
    /\ pc' = "save_txt"
    /\ UNCHANGED <<exc, audio_path, processed_audio_path, temp_file_created,
                   fs, remove_failed, diarization, whisper_segments, segments,
                   transcript, csv_file, start_time, end_time, speaker>>

SaveReadableTranscript ==
    /\ pc = "save_txt"
    /\ transcript' = <<ReadableTranscript(segments)>>
    /\ pc' = "save_csv"
    /\ UNCHANGED <<exc, audio_path, processed_audio_path, temp_file_created,
                   fs, remove_failed, diarization, whisper_segments, segments,
                   json_file, csv_file, start_time, end_time, speaker>>

(* df['start'] raises KeyError when the frame has no such column; the     *)
(* exception leaves transcribe_with_speakers through its finally block.   *)
SaveCsvAnalysis ==
    /\ pc = "save_csv"
    /\ LET columns == DataFrameColumns(segments)
       IN  IF HasColumn(columns, "start") /\ HasColumn(columns, "end")
           THEN /\ csv_file' = <<
                      [header |-> columns
                                  \o <<"start_formatted", "end_formatted">>,
                       rows |-> CsvRows(segments)] >>
                /\ exc' = exc
           ELSE /\ exc' = "KeyError"
                /\ csv_file' = csv_file
    /\ pc' = "finally"
    /\ UNCHANGED <<audio_path, processed_audio_path, temp_file_created, fs,
                   remove_failed, diarization, whisper_segments, segments,
                   json_file, transcript, start_time, end_time, speaker>>

(* ------------- specification of the align-then-project path ----------- *)
(* Timelines the diarization step hands to the aligner. *)
SampleTimelines ==
    { <<>>,
      <<[start |-> 0, end |-> 1, speaker |-> <<"SPEAKER", "_", "00">>]>>,
      <<[start |-> 0, end |-> 1, speaker |-> <<"SPEAKER", "_", "00">>],
        [start |-> 1, end |-> 2, speaker |-> <<"SPEAKER", "_", "01">>]>> }

NoCall == /\ exc = None
          /\ audio_path = None
          /\ processed_audio_path = None
          /\ temp_file_created = FALSE
          /\ fs = {}
          /\ remove_failed = FALSE
          /\ start_time = 0
          /\ end_time = 0
          /\ speaker = Absent
          /\ json_file = Absent
          /\ transcript = Absent
          /\ csv_file = Absent

InitCore ==
    /\ NoCall
    /\ pc = "align"
    /\ whisper_segments \in SeqsUpTo(WhisperSegments, MaxSpans)
    /\ diarization \in SampleTimelines
    /\ segments = <<>>

NextCore ==
    \/ Align
    \/ SaveDetailedJson
    \/ SaveReadableTranscript
    \/ SaveCsvAnalysis

SpecCore == InitCore /\ [][NextCore]_vars

(* ----------------- specification of the output projector -------------- *)
MaxUtterances == 3

Labels == { <<"Speaker", "_", "00">>, <<"Speaker", "_", "01">>, Unknown }

AlignedUtterances ==
    {[start |-> a, end |-> a + 1, duration |-> 1, speaker |-> l,
      text |-> t, confidence |-> 0] :
        a \in {0, MaxTime}, l \in Labels, t \in {<<"a">>, <<"b">>}}

InitRender ==
    /\ NoCall
    /\ pc = "save_json"
    /\ whisper_segments = <<>>
    /\ diarization = <<>>
    /\ segments \in SeqsUpTo(AlignedUtterances, MaxUtterances)

NextRender ==
    \/ SaveDetailedJson
    \/ SaveReadableTranscript
    \/ SaveCsvAnalysis

SpecRender == InitRender /\ [][NextRender]_vars

(* ---------------- transcribe_with_speakers: the paths ----------------- *)
MaxDirs == 2

(* A path string "d1/d2/stem+suffix": its directory components as         *)
(* written, "." included, the stem cut where a piece is appended to it,   *)
(* and the suffix one character per element.                              *)
DirNames == {"audio_files", "."}

Suffixes == { <<".", "w", "a", "v">>, <<".", "W", "A", "V">>,
              <<".", "m", "p", "3">> }

PathStrings ==
    {[dirs |-> d, stem |-> <<"meeting">>, suffix |-> x] :
        d \in SeqsUpTo(DirNames, MaxDirs), x \in Suffixes}

(* The audio_path argument: a str, or a pathlib.Path made from one. *)
Arguments == {[is_path |-> b, text |-> t] : b \in BOOLEAN, t \in PathStrings}

RECURSIVE DropDots(_)
DropDots(dirs) ==
    IF dirs = <<>> THEN <<>>
    ELSE IF Head(dirs) = "." THEN DropDots(Tail(dirs))
         ELSE <<Head(dirs)>> \o DropDots(Tail(dirs))

(* str(Path(text)): pathlib drops the "." components. *)
StrOfPath(text) == [text EXCEPT !.dirs = DropDots(text.dirs)]

LowerChar(c) ==
    CASE c = "W" -> "w" [] c = "A" -> "a" [] c = "V" -> "v" [] OTHER -> c

(* str.lower() *)
Lower(str) == [k \in DOMAIN str |-> LowerChar(str[k])]

(* audio_path.parent / f"{audio_path.stem}_temp.wav" *)
TempWav(text) ==
    [dirs |-> DropDots(text.dirs),
     stem |-> text.stem \o <<"_temp">>,
     suffix |-> <<".", "w", "a", "v">>]

(* The file a path string names: "./x" and "x" are one file. *)
FileOf(text) == StrOfPath(text)

(* processed_audio_path != audio_path: a str never equals a Path object,  *)
(* two strs are equal when their characters are.                          *)
NotEqualToArgument(str, arg) == arg.is_path \/ str # arg.text

(* os.path.exists *)
Exists(files, text) == FileOf(text) \in files

(* ---------------- transcribe_with_speakers: the steps ----------------- *)
(* Lines 179-180: _convert_audio_if_needed, then the comparison that sets *)
(* temp_file_created.  A conversion ends in one of three ways: the WAV is *)
(* written, librosa.load raises (no file), or sf.write raises after it    *)
(* has created the file.                                                  *)
Converted(result, files) ==
    /\ processed_audio_path' = result
    /\ temp_file_created' = NotEqualToArgument(result, audio_path)
    /\ fs' = files
    /\ pc' = "diarize"
    /\ UNCHANGED <<exc, audio_path, remove_failed, diarization,
                   whisper_segments, segments, json_file, transcript,
                   csv_file, start_time, end_time, speaker>>

ConvertAudioIfNeeded ==
    /\ pc = "convert"
    /\ LET path == StrOfPath(audio_path.text)
           temp_wav == TempWav(audio_path.text)
       IN  IF Lower(path.suffix) = <<".", "w", "a", "v">>
           THEN Converted(path, fs)
           ELSE \/ Converted(temp_wav, fs \cup {temp_wav})
                \/ Converted(path, fs)
                \/ Converted(path, fs \cup {temp_wav})

Raise(name) ==
    /\ exc' = name
    /\ pc' = "finally"

(* self.diarization_pipeline(processed_audio_path) returns or raises. *)
Diarize ==
    /\ pc = "diarize"
    /\ \/ /\ diarization' \in SampleTimelines
          /\ pc' = "transcribe"
          /\ exc' = exc
       \/ /\ Raise("DiarizationError")
          /\ diarization' = diarization
    /\ UNCHANGED <<audio_path, processed_audio_path, temp_file_created, fs,
                   remove_failed, whisper_segments, segments, json_file,
                   transcript, csv_file, start_time, end_time, speaker>>

(* What whisper_model.transcribe returns in result["segments"]. *)
SampleResults == {<<>>} \cup {<<w>> : w \in WhisperSegments}

Transcribe ==
    /\ pc = "transcribe"
    /\ \/ /\ whisper_segments' \in SampleResults
          /\ pc' = "align"
          /\ exc' = exc
       \/ /\ Raise("TranscriptionError")
          /\ whisper_segments' = whisper_segments
    /\ UNCHANGED <<audio_path, processed_audio_path, temp_file_created, fs,
                   remove_failed, diarization, segments, json_file,
                   transcript, csv_file, start_time, end_time, speaker>>

(* The finally block: os.remove succeeds, or raises and is logged. *)
Finally ==
    /\ pc = "finally"
    /\ IF temp_file_created /\ Exists(fs, processed_audio_path)
       THEN \/ /\ fs' = fs \ {FileOf(processed_audio_path)}
               /\ remove_failed' = remove_failed
            \/ /\ fs' = fs
               /\ remove_failed' = TRUE
       ELSE UNCHANGED <<fs, remove_failed>>
    /\ pc' = "done"
    /\ UNCHANGED <<exc, audio_path, processed_audio_path, temp_file_created,
                   diarization, whisper_segments, segments, json_file,
                   transcript, csv_file, start_time, end_time, speaker>>

(* A call of transcribe_with_speakers on an existing audio file. *)
Init ==
    /\ pc = "convert"
    /\ exc = None
    /\ audio_path \in Arguments
    /\ processed_audio_path = Absent
    /\ temp_file_created = FALSE
    /\ fs = {FileOf(audio_path.text)}
    /\ remove_failed = FALSE
    /\ diarization = <<>>
    /\ whisper_segments = <<>>
    /\ segments = <<>>
    /\ json_file = Absent
    /\ transcript = Absent
    /\ csv_file = Absent
    /\ start_time = 0
    /\ end_time = 0
    /\ speaker = Absent

Next ==
    \/ ConvertAudioIfNeeded
    \/ Diarize
    \/ Transcribe
    \/ Align
    \/ SaveDetailedJson
    \/ SaveReadableTranscript
    \/ SaveCsvAnalysis
    \/ Finally

Spec == Init /\ [][Next]_vars

(* ------------- properties of the overlap resolver (C2-C5) ------------- *)
(* The overlap of one turn with the span, as the claims define it.        *)
TurnOverlap(turn) ==
    Min2(end_time, turn.end) - Max2(start_time, turn.start)

OverlappingIdx == {i \in DOMAIN diarization : TurnOverlap(diarization[i]) > 0}

RECURSIVE SumOverlap(_, _)
SumOverlap(spk, i) ==
    IF i = 0 THEN 0
    ELSE SumOverlap(spk, i - 1)
         + (IF diarization[i].speaker = spk /\ i \in OverlappingIdx
            THEN TurnOverlap(diarization[i]) ELSE 0)

(* Overlap with the span summed over all of a speaker's turns. *)
SummedOverlap(spk) == SumOverlap(spk, Len(diarization))

Resolved == pc = "resolved"

(* C2: when some turn overlaps the span by a positive amount, the result  *)
(* is the normalized label of a raw speaker id whose summed overlap is    *)
(* greater than or equal to the summed overlap of every other speaker id. *)
C2_DominantHasMaxOverlap ==
    (Resolved /\ OverlappingIdx # {}) =>
        \E raw \in Speakers :
            /\ speaker = SpeakerLabel(raw)
            /\ \A other \in Speakers :
                  SummedOverlap(raw) >= SummedOverlap(other)

(* Both speakers overlap, the winner by strictly more, and the winner's   *)
(* first turn comes after the loser's.                                    *)
C2_Witness ==
    /\ Resolved
    /\ \E raw \in Speakers, other \in Speakers :
          /\ speaker = SpeakerLabel(raw)
          /\ SummedOverlap(raw) > SummedOverlap(other)
          /\ SummedOverlap(other) > 0
          /\ diarization[1].speaker = other
          /\ 1 \in OverlappingIdx

(* C3: the result is "Unknown" exactly when no turn has a strictly        *)
(* positive overlap with the span (empty timeline, turns outside the      *)
(* span, turns touching it at an endpoint); otherwise it is a             *)
(* "Speaker_..." label.                                                   *)
C3_UnknownIffNoOverlap ==
    Resolved =>
        /\ (speaker = Unknown) <=> (OverlappingIdx = {})
        /\ (OverlappingIdx # {}) =>
              /\ Len(speaker) >= 2
              /\ SubSeq(speaker, 1, 2) = <<"Speaker", "_">>

(* Every turn of a non-empty timeline touches a valid span at one of its  *)
(* endpoints, and the result is "Unknown".                                *)
C3_Witness ==
    /\ Resolved
    /\ start_time < end_time
    /\ speaker = Unknown
    /\ diarization # <<>>
    /\ \A i \in DOMAIN diarization :
          \/ diarization[i].end = start_time
          \/ diarization[i].start = end_time

(* The turns that fully contain the span. *)
ContainingIdx ==
    {i \in DOMAIN diarization :
        diarization[i].start <= start_time /\ end_time <= diarization[i].end}

(* C4 as stated: if exactly one turn fully contains the span and its      *)
(* speaker is X, the label is Speaker_X whatever other turns are present. *)
C4_FullContainment ==
    (Resolved /\ start_time < end_time /\ Cardinality(ContainingIdx) = 1) =>
        \A i \in ContainingIdx : speaker = SpeakerLabel(diarization[i].speaker)

(* C4 amended: if exactly one turn fully contains a span of positive      *)
(* duration and its speaker is X, the label is Speaker_X provided every   *)
(* other speaker's summed overlap is less than the span's duration.       *)
C4_FullContainmentAmended ==
    (Resolved /\ start_time < end_time /\ Cardinality(ContainingIdx) = 1) =>
        \A i \in ContainingIdx :
            (\A other \in Speakers \ {diarization[i].speaker} :
                 SummedOverlap(other) < end_time - start_time)
            => speaker = SpeakerLabel(diarization[i].speaker)

(* One containing turn, and before it a turn of another speaker that      *)
(* overlaps the span without containing it.                               *)
C4_Witness ==
    /\ Resolved
    /\ start_time < end_time
    /\ Cardinality(ContainingIdx) = 1
    /\ \A i \in ContainingIdx :
          /\ speaker = SpeakerLabel(diarization[i].speaker)
          /\ \A other \in Speakers \ {diarization[i].speaker} :
                SummedOverlap(other) < end_time - start_time
          /\ i > 1
          /\ diarization[1].speaker # diarization[i].speaker
          /\ 1 \in OverlappingIdx

(* C5: when two or more speakers have equal maximal summed overlap, the   *)
(* result is the label of the tied speaker whose first overlapping turn   *)
(* comes earliest in the timeline.                                        *)
Tied ==
    {spk \in Speakers :
        /\ SummedOverlap(spk) > 0
        /\ \A other \in Speakers : SummedOverlap(spk) >= SummedOverlap(other)}

FirstOverlappingIdx(spk) ==
    CHOOSE i \in OverlappingIdx :
        /\ diarization[i].speaker = spk
        /\ \A j \in OverlappingIdx : diarization[j].speaker = spk => i <= j

C5_TieFirstEncountered ==
    (Resolved /\ Cardinality(Tied) >= 2) =>
        \E spk \in Tied :
            /\ speaker = SpeakerLabel(spk)
            /\ \A other \in Tied :
                  FirstOverlappingIdx(spk) <= FirstOverlappingIdx(other)

(* A tie that SPEAKER_01 wins because its turn comes first. *)
C5_Witness ==
    /\ Resolved
    /\ Cardinality(Tied) >= 2
    /\ speaker = <<"Speaker", "_", "01">>

(* ---------------- properties of the aligner (C1, C8) ------------------ *)
Aligned == pc \in {"save_json", "save_txt", "save_csv", "finally", "done"}

AllSpaces(text) == \A k \in DOMAIN text : text[k] = " "

(* t is raw without its leading and trailing whitespace. *)
IsStripped(t, raw) ==
    /\ t = <<>> \/ (t[1] # " " /\ t[Len(t)] # " ")
    /\ \E a \in 0..Len(raw), b \in 0..Len(raw) :
          /\ a + b <= Len(raw)
          /\ AllSpaces(SubSeq(raw, 1, a))
          /\ AllSpaces(SubSeq(raw, Len(raw) - b + 1, Len(raw)))
          /\ t = SubSeq(raw, a + 1, Len(raw) - b)

C8_InvalidSpanRejected ==
    Aligned =>
        /\ (\E i \in DOMAIN whisper_segments :
               whisper_segments[i].end <= whisper_segments[i].start)
           => exc = "InvalidSpanError"
        /\ \A i \in DOMAIN segments : segments[i].duration > 0

(* ------------- properties of the output projector (C6, C7) ------------ *)
RunStart(i) == i = 1 \/ segments[i].speaker # segments[i - 1].speaker

(* The number of maximal same-speaker runs that start at or before i. *)
RunStarts(i) == Cardinality({j \in 1..i : RunStart(j)})

(* Where the text line of utterance i stands among the writes. *)
TextPos(i) == Len(Banner) + i + RunStarts(i)

(* C6: the readable transcript has exactly one header per maximal run of  *)
(* consecutive utterances with the same speaker label: a header is        *)
(* written before utterance i exactly when i is the first utterance or    *)
(* its speaker differs from utterance i-1's, and every utterance's text   *)
(* line appears in input order under the header of its run.               *)
C6_OneHeaderPerRun ==
    transcript # Absent =>
        LET written == transcript[1]
            n == Len(segments)
        IN  /\ Len(written) = Len(Banner) + n + RunStarts(n)
            /\ Cardinality({p \in DOMAIN written : written[p].kind = "header"})
                  = RunStarts(n)
            /\ \A i \in 1..n :
                  /\ written[TextPos(i)].kind = "text"
                  /\ written[TextPos(i)].text = segments[i].text
                  /\ RunStart(i) <=> written[TextPos(i) - 1].kind = "header"
                  /\ RunStart(i) =>
                        written[TextPos(i) - 1].speaker = segments[i].speaker

(* A run of two utterances of one speaker, then another speaker. *)
C6_Witness ==
    /\ transcript # Absent
    /\ Len(segments) = 3
    /\ segments[1].speaker = segments[2].speaker
    /\ segments[2].speaker # segments[3].speaker
    /\ segments[1].text # segments[2].text

(* C7: the align-then-project path never fails, the empty span sequence   *)
(* included: when the three renderings have run, nothing was raised and   *)
(* all three artifacts are written.                                       *)
C7_ProjectionNeverFails ==
    pc = "finally" =>
        /\ exc = None
        /\ json_file # Absent
        /\ transcript # Absent
        /\ csv_file # Absent

(* ------------- properties of the temp-file lifecycle (C9, C10) -------- *)
(* C9: when the call has finished, on any exit path, the "<stem>_temp.wav" *)
(* file that its conversion created no longer exists.  (Stated here for   *)
(* the calls whose os.remove did not itself fail.)                        *)
C9_TempFileRemoved ==
    (pc = "done" /\ ~remove_failed) => TempWav(audio_path.text) \notin fs

(* C10: the call never deletes the caller's input audio file. *)
C10_InputFileKept == FileOf(audio_path.text) \in fs

====
